---- MODULE Spec2Model ----
(***************************************************************************)
(* Kineforge NodeStudio (src/src/components/studio/NodeStudio.tsx): the    *)
(* live-capture scheduler (startLive / ensureModels / stopLive /           *)
(* resetLayout), the frame callback runFrame with its metric extraction    *)
(* and control smoothing, and the node graph (nodes, edges, preview        *)
(* toggles, node snapshots).                                               *)
(*                                                                         *)
(* Numbers.  Landmark coordinates are multiples of 1/Grid.  A control      *)
(* channel is an integer number of units: 1/Scale for tilt, lift and jaw,  *)
(* 1/PinchScale for pinch, 1/PresenceScale for presence.  Every smoothing  *)
(* factor of the source is a multiple of 1/AlphaDen, so each scale carries *)
(* a factor AlphaDen^MaxSmoothTicks and the arithmetic below is exact      *)
(* (no rounding) for the first MaxSmoothTicks processed frames.            *)
(***************************************************************************)
EXTENDS Integers, Sequences, FiniteSets, TLC

\* ---------------------------------------------------------------- bounds
MaxCalls == 2          \* startLive invocations that may be in flight at once
MaxStreams == 2        \* camera streams that may be live at once
MaxFrames == 2         \* frame callbacks that may be pending at once
MaxTicks == 2          \* processed (non-skipped) frames under Spec
MaxSmoothTicks == 3    \* processed frames under SmoothSpec
MaxTime == 200         \* last display-refresh timestamp (ms) under Spec
MaxExtractTicks == 1   \* processed frames under ExtractSpec
MaxPreviewTicks == 1   \* processed frames under PreviewSpec
MaxUpdates == 1        \* frame-callback setNodes updates waiting for a render
MaxToggles == 2        \* preview toggles under PreviewSpec
MaxSpawns == 2         \* nodes spawned from the picker
MaxGraphSpawns == 1    \* nodes spawned under GraphSpec
MaxPickerTime == 600   \* milliseconds of page time under PickerSpec
MaxPaneClicks == 3     \* clicks on the empty canvas under PickerSpec
MaxLegacyTicks == 2    \* steps of the part_000 graph under LegacySpec
MaxGraphTicks == 1     \* processed frames under GraphSpec
MaxRestartTicks == 3   \* processed frames under RestartSpec
MaxRemovals == 1       \* initial edges removed under GraphSpec

\* ------------------------------------------------------------ arithmetic
Grid == 200
AlphaDen == 50
PinchOpen == 25        \* 0.125: thumb-index distance that reads as open
PinchWindow == 17      \* 0.085: width of the linear pinch window
JawMax == 17           \* 0.085: upper clamp of the lip distance

RECURSIVE Pow(_, _)
Pow(b, n) == IF n = 0 THEN 1 ELSE b * Pow(b, n - 1)

UnitPow == Pow(AlphaDen, MaxSmoothTicks)
Scale == Grid * UnitPow
PinchScale == PinchWindow * UnitPow
PresenceScale == UnitPow

NULL == 0               \* null handle; stream and frame handles are positive

Min(a, b) == IF a < b THEN a ELSE b
Max(a, b) == IF a > b THEN a ELSE b
Abs(a) == IF a < 0 THEN 0 - a ELSE a

\* ----------------------------------------------------------------- state
VARIABLES
  status,            \* useState status: idle | loading | live | error
  statusText,        \* useState statusText: the label of the status badge
  runtime,           \* runtimeRef.current
  tasksModuleRef,    \* TRUE once the tasks-vision module has been imported
  videoSrcObject,    \* videoRef.current.srcObject
  calls,             \* startLive invocations suspended at each await point
  pendingFrames,     \* requestAnimationFrame handles not yet run or cancelled
  frameQueue,        \* callbacks the current display refresh still has to run
  liveStreams,       \* MediaStreams whose tracks have not been stopped
  now,               \* timestamp of the current display refresh
  faceMetrics,       \* faceMetrics of the last processed frame (count -1: none yet)
  handMetrics,       \* handMetrics of the last processed frame (count -1: none yet)
  rawControls,       \* rawControls of the last processed frame
  lastTransition,    \* history: the last change of status, <<from, to>>
  stopRequested,     \* history: Stop/Reset clicked and Start Live not since
  nodes,             \* useNodesState: the node list React has committed
  nodeBase,          \* the node list before the updates still waiting
  nodeUpdates,       \* setNodes updates waiting for a render, in call order
  nodesRef,          \* nodesRef.current
  nodeIdCounterRef,  \* nodeIdCounterRef.current
  edges,             \* useEdgesState: the edge list
  detectorLog,       \* history: the detectForVideo and drawPipStage calls so far
  lastConnect,       \* history: the last connection gesture and its outcome
  toggles,           \* history: number of preview toggles so far
  nodePicker,        \* useState nodePicker: [open]
  lastPaneClickRef,  \* lastPaneClickRef.current
  reactFlowInstanceRef, \* TRUE once onInit has stored the flow instance
  paneClickLog,      \* history: the pane clicks so far and the last one
  state,             \* part_000: the state object
  ui,                \* part_000: status pill, Start button, video, stage canvas
  links,             \* part_000: the data on the links of the graph
  startAwait         \* part_000: the await the Start handler is suspended at

vars == <<status, statusText, runtime, tasksModuleRef, videoSrcObject, calls,
          pendingFrames, frameQueue, liveStreams, now, faceMetrics,
          handMetrics, rawControls, lastTransition, stopRequested,
          nodes, nodeBase, nodeUpdates, nodesRef, nodeIdCounterRef, edges,
          detectorLog, lastConnect, toggles, nodePicker, lastPaneClickRef,
          reactFlowInstanceRef, paneClickLog, state, ui, links, startAwait>>

pickerUnchanged == UNCHANGED <<nodePicker, lastPaneClickRef,
                               reactFlowInstanceRef, paneClickLog>>

prototypeUnchanged == UNCHANGED <<state, ui, links, startAwait>>

\* The awaits of startLive (ensureModels included) at which an invocation
\* leaves the task; playAborted is a play() whose promise will reject.
Awaits == {"import", "fileset", "face", "hand", "gum", "play", "playAborted"}

RECURSIVE Sum(_, _)
Sum(fn, dom) ==
  IF dom = {} THEN 0
  ELSE LET k == CHOOSE x \in dom : TRUE IN fn[k] + Sum(fn, dom \ {k})

InFlight == Sum(calls, Awaits)
StreamIds == 1..MaxStreams
FrameIds == 1..MaxFrames

EMPTY_CONTROLS == [tilt |-> 0, lift |-> 0, pinch |-> 0, jaw |-> 0, presence |-> 0]

RuntimeInit ==
  [stream |-> NULL, rafId |-> NULL, faceLandmarker |-> FALSE,
   handLandmarker |-> FALSE, modelsReady |-> FALSE, frameCount |-> 0,
   lastFrameTimestamp |-> 0, lastUiUpdate |-> 0,
   smoothedControls |-> EMPTY_CONTROLS]

\* ------------------------------------------------------------ node graph
\* A node carries the fields the frame callback and the handlers read or
\* write: id, data.previewSource, data.previewEnabled, data.previewUrl,
\* data.previewHint, data.hasInput, data.hasOutput.  An id is <<name, n>>: <<"face", 0>> for
\* the initial node 'face', <<"face-extract", 3>> for 'face-extract-3'.
\* A previewUrl is UNDEFINED or the number of the frame it was encoded on.
UNDEFINED == 0

PreviewKeys == {"webcam", "face", "hand", "overlay", "mapper", "stage"}

\* The text shown in place of the image of a preview that is on / off.
PREVIEW_HINTS ==
  [webcam |-> "Camera preview appears here",
   face |-> "Face landmarks preview",
   hand |-> "Hand landmarks preview",
   overlay |-> "Overlay preview",
   mapper |-> "Control map scope",
   stage |-> "Final output mirror"]

PREVIEW_OFF_HINT == "Preview off - click eye icon"

\* (variant: the counter is left out of the id)
NodeUnnumbered(name, n, source, in, out) ==
  [id |-> <<name, 0>>, previewSource |-> source, previewEnabled |-> FALSE,
   previewUrl |-> UNDEFINED, previewHint |-> PREVIEW_OFF_HINT,
   hasInput |-> in, hasOutput |-> out]

Node(name, n, source, in, out) ==
  [id |-> <<name, n>>, previewSource |-> source, previewEnabled |-> FALSE,
   previewUrl |-> UNDEFINED, previewHint |-> PREVIEW_OFF_HINT,
   hasInput |-> in, hasOutput |-> out]

\* (variant: the stage node is first in the list)
INITIAL_NODES_StageFirst ==
  << Node("stage", 0, "stage", TRUE, FALSE),
     Node("webcam", 0, "webcam", FALSE, TRUE),
     Node("face", 0, "face", TRUE, TRUE),
     Node("hand", 0, "hand", TRUE, TRUE),
     Node("overlay", 0, "overlay", TRUE, TRUE),
     Node("mapper", 0, "mapper", TRUE, TRUE) >>

INITIAL_NODES ==
  << Node("webcam", 0, "webcam", FALSE, TRUE),
     Node("face", 0, "face", TRUE, TRUE),
     Node("hand", 0, "hand", TRUE, TRUE),
     Node("overlay", 0, "overlay", TRUE, TRUE),
     Node("mapper", 0, "mapper", TRUE, TRUE),
     Node("stage", 0, "stage", TRUE, FALSE) >>

\* An edge is <<source id, target id>>; the edge ids of the source name
\* the same pair ('webcam-face').
Edge(source, target) == << <<source, 0>>, <<target, 0>> >>

\* (variant: the stage feeds the webcam)
INITIAL_EDGES_Looped ==
  {Edge("webcam", "face"), Edge("webcam", "hand"), Edge("webcam", "overlay"),
   Edge("face", "overlay"), Edge("hand", "overlay"), Edge("face", "mapper"),
   Edge("hand", "mapper"), Edge("overlay", "stage"), Edge("mapper", "stage"),
   Edge("stage", "webcam")}

INITIAL_EDGES ==
  {Edge("webcam", "face"), Edge("webcam", "hand"), Edge("webcam", "overlay"),
   Edge("face", "overlay"), Edge("hand", "overlay"), Edge("face", "mapper"),
   Edge("hand", "mapper"), Edge("overlay", "stage"), Edge("mapper", "stage")}

NODE_LIBRARY ==
  {[templateId |-> "camera-source", previewSource |-> "webcam",
    hasInput |-> FALSE, hasOutput |-> TRUE],
   [templateId |-> "face-extract", previewSource |-> "face",
    hasInput |-> TRUE, hasOutput |-> TRUE],
   [templateId |-> "hand-extract", previewSource |-> "hand",
    hasInput |-> TRUE, hasOutput |-> TRUE],
   [templateId |-> "landmark-overlay", previewSource |-> "overlay",
    hasInput |-> TRUE, hasOutput |-> TRUE],
   [templateId |-> "gesture-mapper", previewSource |-> "mapper",
    hasInput |-> TRUE, hasOutput |-> TRUE],
   [templateId |-> "stage-output", previewSource |-> "stage",
    hasInput |-> TRUE, hasOutput |-> FALSE]}

NodeIds(ns) == {ns[i].id : i \in 1..Len(ns)}

NoUrls == [k \in PreviewKeys |-> UNDEFINED]

\* ---- setNodes
\* A call of setNodes is an update [lane, kind, id, node, previewUrls]:
\* kind "toggle" (toggleNodePreview), "spawn" (spawnNodeFromTemplate),
\* "set" (setNodes(INITIAL_NODES)), "remove" (onNodesChange) or "snapshot"
\* (updateNodeSnapshots).  Updates made in a click or key handler have lane
\* "sync" and are rendered before the handler's task ends; those made in a
\* frame callback have lane "default" and wait for a later render.
Update(lane, kind, id, node, urls) ==
  [lane |-> lane, kind |-> kind, id |-> id, node |-> node, previewUrls |-> urls]

NoId == <<"", 0>>

NoNode == Node("", 0, "", FALSE, FALSE)

\* (variant: a preview switched off keeps its last image)
ToggledNodeKeepsImage(node) ==
  LET nextEnabled == ~node.previewEnabled IN
  [node EXCEPT !.previewEnabled = nextEnabled,
               !.previewHint = IF nextEnabled
                               THEN PREVIEW_HINTS[node.previewSource]
                               ELSE PREVIEW_OFF_HINT]

\* (variant: the hint is left as it was)
ToggledNodeKeepsHint(node) ==
  LET nextEnabled == ~node.previewEnabled IN
  [node EXCEPT !.previewEnabled = nextEnabled,
               !.previewUrl = IF nextEnabled THEN node.previewUrl ELSE UNDEFINED]

\* The updater of toggleNodePreview on one node.
ToggledNode(node) ==
  LET nextEnabled == ~node.previewEnabled IN
  [node EXCEPT !.previewEnabled = nextEnabled,
               !.previewUrl = IF nextEnabled THEN node.previewUrl ELSE UNDEFINED,
               !.previewHint = IF nextEnabled
                               THEN PREVIEW_HINTS[node.previewSource]
                               ELSE PREVIEW_OFF_HINT]

\* The updater of updateNodeSnapshots on one node: the flag is read from the
\* node the updater is applied to, the images from the frame's previewUrls.
SnapshotNode(node, previewUrls) ==
  LET source == node.previewSource
      isPreviewEnabled == node.previewEnabled
  IN [node EXCEPT
        !.previewUrl =
          IF isPreviewEnabled
          THEN (IF previewUrls[source] # UNDEFINED THEN previewUrls[source]
                ELSE node.previewUrl)
          ELSE UNDEFINED,
        !.previewHint =
          IF isPreviewEnabled THEN PREVIEW_HINTS[source] ELSE PREVIEW_OFF_HINT]

Without(ns, id) == SelectSeq(ns, LAMBDA n : n.id # id)

\* One update applied to the node list prevNodes.
ApplyUpdate(u, prevNodes) ==
  CASE u.kind = "toggle" ->
         [i \in 1..Len(prevNodes) |->
            IF prevNodes[i].id = u.id THEN ToggledNode(prevNodes[i])
            ELSE prevNodes[i]]
    [] u.kind = "spawn" -> Append(prevNodes, u.node)
    [] u.kind = "set" -> INITIAL_NODES
    [] u.kind = "remove" -> Without(prevNodes, u.id)
    [] u.kind = "snapshot" ->
         [i \in 1..Len(prevNodes) |-> SnapshotNode(prevNodes[i], u.previewUrls)]

\* A render of the given lanes: the waiting updates of these lanes applied
\* in call order, starting from the list before the first waiting update.
RECURSIVE Replay(_, _, _)
Replay(ns, us, lanes) ==
  IF us = <<>> THEN ns
  ELSE Replay(IF Head(us).lane \in lanes THEN ApplyUpdate(Head(us), ns) ELSE ns,
              Tail(us), lanes)

\* setNodes(u).  A sync update is rendered at once: alone when nothing
\* waits, else together with the sync updates that wait, the default ones
\* being skipped and kept.  The effect on [nodes] then stores the committed
\* list in nodesRef (the updaters of toggle and spawn do so already).
SetNodes(u) ==
  IF u.lane = "sync"
  THEN IF nodeUpdates = <<>>
       THEN /\ nodeBase' = ApplyUpdate(u, nodeBase)
            /\ nodeUpdates' = <<>>
            /\ nodes' = nodeBase'
            /\ nodesRef' = nodes'
       ELSE /\ nodeUpdates' = Append(nodeUpdates, u)
            /\ nodeBase' = nodeBase
            /\ nodes' = Replay(nodeBase, nodeUpdates', {"sync"})
            /\ nodesRef' = nodes'
  ELSE /\ nodeUpdates' = Append(nodeUpdates, u)
       /\ UNCHANGED <<nodeBase, nodes, nodesRef>>

\* Room for one more update: a frame callback queues behind fewer than
\* MaxUpdates waiting updates, a click or key handler behind at most that.
CanQueue(lane) ==
  Len(nodeUpdates) < (IF lane = "sync" THEN MaxUpdates + 1 ELSE MaxUpdates)

graphUnchanged == UNCHANGED <<nodes, nodeBase, nodeUpdates, nodesRef,
                              nodeIdCounterRef, edges, lastConnect, toggles>>

\* No pane click yet: count of clicks, time of the last one, whether the
\* last one opened the picker.
NoPaneClick == [count |-> 0, last |-> 0, opened |-> FALSE]

\* ------------------------------------------------- part_000: initial state
\* Metrics in units of 1/Grid; isNull marks the null an extractor emits.
NullFaceMetrics == [isNull |-> TRUE, count |-> 0, noseX |-> 0, noseY |-> 0, jaw |-> 0]
NullHandMetrics == [isNull |-> TRUE, count |-> 0, pinch |-> 0, palmY |-> 0]

\* `controls.x ?? 0` of drawStage on the empty object
NoControls == [tilt |-> 0, lift |-> 0, pinch |-> 0, jaw |-> 0, presence |-> 0]

\* The state object after bootstrap(): startGraphLoop has requested the
\* first loop callback.  A trail entry is its life in units of 0.02.
StateInit ==
  [modelsReady |-> FALSE, cameraReady |-> FALSE, stream |-> NULL,
   faceLandmarker |-> FALSE, handLandmarker |-> FALSE, rafId |-> 1,
   trail |-> <<>>, frameCounter |-> 0,
   lastFaceMetrics |-> NullFaceMetrics, lastHandMetrics |-> NullHandMetrics]

\* stage is what the last drawStage call painted: the base image (NULL: the
\* background only) and the controls it read.
UiInit ==
  [statusPill |-> "Idle", startBtnDisabled |-> FALSE, webcamSrcObject |-> NULL,
   stage |-> [baseImage |-> NULL, controls |-> NoControls]]

\* The link data before the first step: nothing has been emitted.
\* frame and image are NULL or the number of the step that drew them.
NoData ==
  [frame |-> NULL, faceLandmarks |-> 0, faceMetrics |-> NullFaceMetrics,
   handLandmarks |-> 0, handMetrics |-> NullHandMetrics, image |-> NULL,
   controls |-> NoControls, executed |-> 0]

\* Calls of detectForVideo so far on each landmarker and the timestamp of the
\* last one; calls of drawPipStage so far.
NoCalls ==
  [faceCalls |-> 0, handCalls |-> 0, faceTimestamp |-> 0, handTimestamp |-> 0,
   stageCalls |-> 0]

Init ==
  /\ status = "idle"
  /\ statusText = "Idle"
  /\ runtime = RuntimeInit
  /\ tasksModuleRef = FALSE
  /\ videoSrcObject = NULL
  /\ calls = [a \in Awaits |-> 0]
  /\ pendingFrames = {}
  /\ frameQueue = {}
  /\ liveStreams = {}
  /\ now = 0
  /\ faceMetrics = [count |-> 0 - 1, noseX |-> 0, noseY |-> 0, jaw |-> 0]
  /\ handMetrics = [count |-> 0 - 1, pinch |-> 0, palmY |-> 0]
  /\ rawControls = EMPTY_CONTROLS
  /\ lastTransition = <<"idle", "idle">>
  /\ stopRequested = FALSE
  /\ nodes = INITIAL_NODES
  /\ nodeBase = INITIAL_NODES
  /\ nodeUpdates = <<>>
  /\ nodesRef = INITIAL_NODES
  /\ nodeIdCounterRef = 1
  /\ edges = INITIAL_EDGES
  /\ detectorLog = NoCalls
  /\ lastConnect = [source |-> NoId, target |-> NoId, error |-> "none"]
  /\ toggles = 0
  /\ nodePicker = [open |-> FALSE]
  /\ lastPaneClickRef = 0
  /\ reactFlowInstanceRef = FALSE
  /\ paneClickLog = NoPaneClick
  /\ state = StateInit
  /\ ui = UiInit
  /\ links = NoData
  /\ startAwait = "none"

\* ------------------------------------------------------ platform helpers
\* setStudioStatus: React state; setting the current value changes nothing.
setStudioStatus(nextStatus, message) ==
  /\ status' = nextStatus
  /\ statusText' = message
  /\ lastTransition' = IF nextStatus # status THEN <<status, nextStatus>>
                       ELSE lastTransition

\* requestAnimationFrame returns a handle no pending callback has.  Handles
\* are only ever compared with runtime.rafId, which is overwritten in the
\* same step that requests a frame, so a handle that is no longer pending
\* may be handed out again.
FreshFrame(pending) == CHOOSE f \in FrameIds : f \notin pending

\* Assigning video.srcObject starts a new load on the media element, which
\* rejects the play() promises still pending on it (AbortError).
AbortPlays(cs) ==
  [cs EXCEPT !["play"] = 0, !["playAborted"] = cs["playAborted"] + cs["play"]]

\* One invocation suspends at await point a / resumes from it.
Suspend(cs, a) == [cs EXCEPT ![a] = cs[a] + 1]

Resume(cs, a) == [cs EXCEPT ![a] = cs[a] - 1]

\* Clicks and promise settlements are tasks of their own: none runs while a
\* display refresh is still running its callbacks.
BetweenFrames == frameQueue = {}

frameUnchanged == UNCHANGED <<frameQueue, now, faceMetrics, handMetrics,
                              rawControls, detectorLog>>

\* ----------------------------------------------------------- ensureModels
\* (variant: the early return is missing, every Start Live reloads)
ModelsNeverCached(rt) == FALSE

\* ensureModels returns at once when the models are ready.
ModelsCached(rt) == rt.modelsReady /\ rt.faceLandmarker /\ rt.handLandmarker

\* ------------------------------------------------------------- startLive
\* (variant: the rafId check is missing)
StartBodyUnguarded(cs, rt) ==
  IF rt.stream = NULL
  THEN /\ calls' = Suspend(cs, "gum")
       /\ runtime' = rt
       /\ UNCHANGED videoSrcObject
  ELSE /\ calls' = Suspend(AbortPlays(cs), "play")
       /\ runtime' = rt
       /\ videoSrcObject' = rt.stream

\* startLive after `await ensureModels()`: the rafId check, then either
\* getUserMedia or, with a stream already held, srcObject and play().
\* rt is the runtime as ensureModels left it, cs the other invocations.
StartBody(cs, rt) ==
  IF rt.rafId # NULL
  THEN /\ calls' = cs
       /\ runtime' = rt
       /\ UNCHANGED videoSrcObject
  ELSE IF rt.stream = NULL
  THEN /\ calls' = Suspend(cs, "gum")
       /\ runtime' = rt
       /\ UNCHANGED videoSrcObject
  ELSE /\ calls' = Suspend(AbortPlays(cs), "play")
       /\ runtime' = rt
       /\ videoSrcObject' = rt.stream

\* Click on "Start Live": runs to the first await that leaves the task.
StartLive ==
  /\ BetweenFrames
  /\ InFlight < MaxCalls
  /\ stopRequested' = FALSE
  /\ IF ModelsCached(runtime)
     THEN /\ StartBody(calls, runtime)
          /\ UNCHANGED <<status, statusText, lastTransition>>
     ELSE /\ setStudioStatus("loading", "Loading MediaPipe models...")
          /\ calls' = Suspend(calls, IF tasksModuleRef THEN "fileset" ELSE "import")
          /\ UNCHANGED <<runtime, videoSrcObject>>
  /\ UNCHANGED <<tasksModuleRef, pendingFrames, liveStreams>>
  /\ frameUnchanged
  /\ graphUnchanged
  /\ pickerUnchanged
  /\ prototypeUnchanged

\* import('@mediapipe/tasks-vision') resolves.
ImportResolved ==
  /\ BetweenFrames
  /\ calls["import"] > 0
  /\ tasksModuleRef' = TRUE
  /\ calls' = Suspend(Resume(calls, "import"), "fileset")
  /\ UNCHANGED <<status, statusText, lastTransition, runtime, videoSrcObject,
                 pendingFrames, liveStreams, stopRequested>>
  /\ frameUnchanged
  /\ graphUnchanged
  /\ pickerUnchanged
  /\ prototypeUnchanged

\* FilesetResolver.forVisionTasks resolves.
FilesetResolved ==
  /\ BetweenFrames
  /\ calls["fileset"] > 0
  /\ calls' = Suspend(Resume(calls, "fileset"), "face")
  /\ UNCHANGED <<status, statusText, lastTransition, runtime, tasksModuleRef,
                 videoSrcObject, pendingFrames, liveStreams, stopRequested>>
  /\ frameUnchanged
  /\ graphUnchanged
  /\ pickerUnchanged
  /\ prototypeUnchanged

\* FaceLandmarker.createFromOptions resolves.
FaceCreated ==
  /\ BetweenFrames
  /\ calls["face"] > 0
  /\ runtime' = [runtime EXCEPT !.faceLandmarker = TRUE]
  /\ calls' = Suspend(Resume(calls, "face"), "hand")
  /\ UNCHANGED <<status, statusText, lastTransition, tasksModuleRef, videoSrcObject,
                 pendingFrames, liveStreams, stopRequested>>
  /\ frameUnchanged
  /\ graphUnchanged
  /\ pickerUnchanged
  /\ prototypeUnchanged

\* HandLandmarker.createFromOptions resolves: modelsReady, and startLive
\* continues in the same task.
HandCreated ==
  /\ BetweenFrames
  /\ calls["hand"] > 0
  /\ StartBody(Resume(calls, "hand"),
               [runtime EXCEPT !.handLandmarker = TRUE, !.modelsReady = TRUE])
  /\ UNCHANGED <<status, statusText, lastTransition, tasksModuleRef, pendingFrames,
                 liveStreams, stopRequested>>
  /\ frameUnchanged
  /\ graphUnchanged
  /\ pickerUnchanged
  /\ prototypeUnchanged

\* getUserMedia resolves with a new stream: it is stored whatever
\* runtime.stream holds by now, then srcObject and play().
GumResolved ==
  /\ BetweenFrames
  /\ calls["gum"] > 0
  /\ \E s \in StreamIds :
       /\ s \notin liveStreams
       /\ s = CHOOSE t \in StreamIds : t \notin liveStreams
       /\ liveStreams' = liveStreams \cup {s}
       /\ runtime' = [runtime EXCEPT !.stream = s]
       /\ videoSrcObject' = s
  /\ calls' = Suspend(AbortPlays(Resume(calls, "gum")), "play")
  /\ UNCHANGED <<status, statusText, lastTransition, tasksModuleRef, pendingFrames,
                 stopRequested>>
  /\ frameUnchanged
  /\ graphUnchanged
  /\ pickerUnchanged
  /\ prototypeUnchanged

\* video.play() resolves: status live and the first frame is requested.
PlayResolved ==
  /\ BetweenFrames
  /\ calls["play"] > 0
  /\ Cardinality(pendingFrames) < MaxFrames
  /\ setStudioStatus("live", "Live capture running")
  /\ LET f == FreshFrame(pendingFrames) IN
       /\ runtime' = [runtime EXCEPT !.rafId = f]
       /\ pendingFrames' = pendingFrames \cup {f}
  /\ calls' = Resume(calls, "play")
  /\ UNCHANGED <<tasksModuleRef, videoSrcObject, liveStreams, stopRequested>>
  /\ frameUnchanged
  /\ graphUnchanged
  /\ pickerUnchanged
  /\ prototypeUnchanged

\* Any awaited step rejects: the catch block of startLive.
StartFailed(a) ==
  /\ BetweenFrames
  /\ calls[a] > 0
  /\ setStudioStatus("error", "Failed to start")
  /\ calls' = Resume(calls, a)
  /\ UNCHANGED <<runtime, tasksModuleRef, videoSrcObject, pendingFrames,
                 liveStreams, stopRequested>>
  /\ frameUnchanged
  /\ graphUnchanged
  /\ pickerUnchanged
  /\ prototypeUnchanged

\* -------------------------------------------------------------- stopLive
\* The state stopLive leaves: the frame named by rafId cancelled, the tracks
\* of runtime.stream stopped, srcObject cleared.
StopEffects ==
  /\ pendingFrames' = pendingFrames \ {runtime.rafId}
  /\ liveStreams' = liveStreams \ {runtime.stream}
  /\ runtime' = [runtime EXCEPT !.rafId = NULL, !.stream = NULL]
  /\ videoSrcObject' = NULL
  /\ calls' = AbortPlays(calls)

\* Click on "Stop".
StopLive ==
  /\ BetweenFrames
  /\ StopEffects
  /\ setStudioStatus("idle", "Camera stopped")
  /\ stopRequested' = TRUE
  /\ UNCHANGED tasksModuleRef
  /\ frameUnchanged
  /\ graphUnchanged
  /\ pickerUnchanged
  /\ prototypeUnchanged

\* Click on "Reset Graph": stopLive, then status idle ("Graph reset").
\* nodesRef and the node list go back to INITIAL_NODES; the edges and the
\* id counter are left as they are.
ResetLayout ==
  /\ BetweenFrames
  /\ CanQueue("sync")
  /\ StopEffects
  /\ SetNodes(Update("sync", "set", NoId, NoNode, NoUrls))
  /\ setStudioStatus("idle", "Graph reset")
  /\ stopRequested' = TRUE
  /\ UNCHANGED <<tasksModuleRef, nodeIdCounterRef, edges, lastConnect, toggles>>
  /\ frameUnchanged
  /\ pickerUnchanged
  /\ prototypeUnchanged

\* ------------------------------------------------------------ graph edits
passUnchanged == UNCHANGED <<status, statusText, lastTransition, runtime,
                             tasksModuleRef, videoSrcObject, calls,
                             pendingFrames, liveStreams, stopRequested>>

\* Click on the eye button of a node card.
toggleNodePreview(nodeId) ==
  /\ BetweenFrames
  /\ CanQueue("sync")
  /\ toggles < MaxToggles
  /\ nodeId \in NodeIds(nodes)
  /\ SetNodes(Update("sync", "toggle", nodeId, NoNode, NoUrls))
  /\ toggles' = toggles + 1
  /\ UNCHANGED <<nodeIdCounterRef, edges, lastConnect>>
  /\ passUnchanged
  /\ frameUnchanged
  /\ pickerUnchanged
  /\ prototypeUnchanged

\* A template picked in the node picker (click or Enter).
spawnNodeFromTemplate(template) ==
  /\ BetweenFrames
  /\ CanQueue("sync")
  /\ nodeIdCounterRef <= MaxSpawns
  /\ LET nextCounter == nodeIdCounterRef
         node == Node(template.templateId, nextCounter, template.previewSource,
                      template.hasInput, template.hasOutput)
     IN /\ nodeIdCounterRef' = nodeIdCounterRef + 1
        /\ SetNodes(Update("sync", "spawn", node.id, node, NoUrls))
  /\ nodePicker' = [nodePicker EXCEPT !.open = FALSE]
  /\ UNCHANGED <<lastPaneClickRef, reactFlowInstanceRef, paneClickLog>>
  /\ UNCHANGED <<edges, lastConnect, toggles>>
  /\ passUnchanged
  /\ frameUnchanged
  /\ prototypeUnchanged

\* onNodesChange with a remove change (Backspace on a selected node); the
\* flow removes the edges of the node through onEdgesChange.
nodesRemoved(nodeId) ==
  /\ BetweenFrames
  /\ CanQueue("sync")
  /\ nodeId \in NodeIds(nodes)
  /\ SetNodes(Update("sync", "remove", nodeId, NoNode, NoUrls))
  /\ edges' = {e \in edges : e[1] # nodeId /\ e[2] # nodeId}
  /\ UNCHANGED <<nodeIdCounterRef, lastConnect, toggles>>
  /\ passUnchanged
  /\ frameUnchanged
  /\ pickerUnchanged
  /\ prototypeUnchanged

\* onEdgesChange with a remove change (Backspace on a selected edge).
edgesRemoved(e) ==
  /\ BetweenFrames
  /\ e \in edges
  /\ edges' = edges \ {e}
  /\ UNCHANGED <<nodes, nodeBase, nodeUpdates, nodesRef, nodeIdCounterRef,
                 lastConnect, toggles>>
  /\ passUnchanged
  /\ frameUnchanged
  /\ pickerUnchanged
  /\ prototypeUnchanged

\* A connection dragged from the source handle of one node to the target
\* handle of another.  The flow is given no onConnect and the setter of
\* useEdgesState is dropped, so no edge is added and nothing is reported.
connectGesture(source, target) ==
  /\ BetweenFrames
  /\ \E i, j \in 1..Len(nodes) :
       /\ nodes[i].id = source /\ nodes[i].hasOutput
       /\ nodes[j].id = target /\ nodes[j].hasInput
  /\ lastConnect' = [source |-> source, target |-> target, error |-> "none"]
  /\ UNCHANGED <<nodes, nodeBase, nodeUpdates, nodesRef, nodeIdCounterRef,
                 edges, toggles>>
  /\ passUnchanged
  /\ frameUnchanged
  /\ pickerUnchanged
  /\ prototypeUnchanged

\* React renders the updates that wait (a task of its own between frames).
Render ==
  /\ BetweenFrames
  /\ nodeUpdates # <<>>
  /\ nodes' = Replay(nodeBase, nodeUpdates, {"sync", "default"})
  /\ nodeBase' = nodes'
  /\ nodeUpdates' = <<>>
  /\ nodesRef' = nodes'
  /\ UNCHANGED <<nodeIdCounterRef, edges, lastConnect, toggles>>
  /\ passUnchanged
  /\ frameUnchanged
  /\ pickerUnchanged
  /\ prototypeUnchanged

\* ------------------------------------------------------------ node picker
DoubleClickWindow == 280

\* onInit of the flow: the instance is stored.
onInit ==
  /\ ~reactFlowInstanceRef
  /\ reactFlowInstanceRef' = TRUE
  /\ UNCHANGED <<nodePicker, lastPaneClickRef, paneClickLog>>
  /\ passUnchanged
  /\ frameUnchanged
  /\ graphUnchanged
  /\ prototypeUnchanged

\* performance.now() advances while no frame callback is pending.
TimePasses(dt) ==
  /\ pendingFrames = {}
  /\ frameQueue = {}
  /\ now' = now + dt
  /\ UNCHANGED <<frameQueue, faceMetrics, handMetrics, rawControls,
                 detectorLog>>
  /\ passUnchanged
  /\ graphUnchanged
  /\ pickerUnchanged
  /\ prototypeUnchanged

\* A click on the empty canvas (the pane is covered while the picker is
\* open).  A click later than the window after the time in
\* lastPaneClickRef is remembered; any other click clears the ref and opens
\* the picker when the flow instance is there.
handlePaneClick ==
  /\ BetweenFrames
  /\ ~nodePicker.open
  /\ IF now - lastPaneClickRef > DoubleClickWindow
     THEN /\ lastPaneClickRef' = now
          /\ UNCHANGED nodePicker
     ELSE /\ lastPaneClickRef' = 0
          /\ nodePicker' = [nodePicker EXCEPT !.open = reactFlowInstanceRef]
  /\ paneClickLog' = [count |-> paneClickLog.count + 1, last |-> now,
                      opened |-> nodePicker'.open]
  /\ UNCHANGED reactFlowInstanceRef
  /\ passUnchanged
  /\ frameUnchanged
  /\ graphUnchanged
  /\ prototypeUnchanged

\* Escape, or a mouse button pressed outside the panel of the picker.
closeNodePicker ==
  /\ BetweenFrames
  /\ nodePicker' = [nodePicker EXCEPT !.open = FALSE]
  /\ UNCHANGED <<lastPaneClickRef, reactFlowInstanceRef, paneClickLog>>
  /\ passUnchanged
  /\ frameUnchanged
  /\ graphUnchanged
  /\ prototypeUnchanged

\* ------------------------------------------------------ detector results
\* A landmark is a point [x, y] in units of 1/Grid; MISSING is an index the
\* detection result does not hold.  A face carries the landmarks runFrame
\* reads (0, 1, 4: nose candidates; 13, 14: lips), a hand likewise
\* (0: wrist; 4: thumb tip; 8: index tip).
MISSING == [x |-> 0 - 1, y |-> 0 - 1]

Pt(px, py) == [x |-> px, y |-> py]

Face(nose, lipGap) ==
  [l0 |-> Pt(nose, 70), l1 |-> Pt(nose, 60), l4 |-> Pt(nose, 50),
   l13 |-> Pt(nose, 80), l14 |-> Pt(nose, 80 + lipGap)]

Hand(wristY, dx, dy) ==
  [l0 |-> Pt(100, wristY), l4 |-> Pt(80, 60), l8 |-> Pt(80 + dx, 60 + dy)]

\* nose x 0.5, lips 0.02 apart / nose x 0.7, lips 0.5 apart (beyond JawMax)
\* / nose x 0, lips closed
FaceCentre == Face(100, 4)
FaceRight == Face(140, 100)
FaceEdge == Face(0, 0)
\* wrist y 1, tips 0.025 apart (closed) / wrist y 0, tips 0.075 apart
HandClosed == Hand(200, 3, 4)
HandHalf == Hand(0, 9, 12)

\* <<faces, hands>> of one frame
LifeDetections == {<< <<>>, <<>> >>, << <<FaceRight>>, <<HandHalf>> >>}
SmoothFaces == {<<>>, <<FaceCentre>>, <<FaceRight>>, <<FaceEdge>>}
SmoothHands == {<<>>, <<HandClosed>>, <<HandHalf>>}
FrameDeltas == {100, 200}

\* Faces whose nose candidates 1, 4 and 0 differ in y (0.3, 0.25, 0.35) and
\* are present, or missing from the front of the preference order, or all
\* missing.
FaceNoTip == [FaceRight EXCEPT !.l1 = MISSING]
FaceNoTipNoBridge == [FaceRight EXCEPT !.l1 = MISSING, !.l4 = MISSING]
FaceNoNose == [FaceRight EXCEPT !.l1 = MISSING, !.l4 = MISSING, !.l0 = MISSING]
FaceBridgeOnly == [FaceRight EXCEPT !.l1 = MISSING, !.l0 = MISSING]
ExtractFaces ==
  {<<>>, <<FaceRight>>, <<FaceNoTip>>, <<FaceNoTipNoBridge>>, <<FaceNoNose>>,
   <<FaceBridgeOnly>>}

\* Thumb-index distances (grid units) below, at, inside, at and above the
\* ends 0.04 and 0.125 of the pinch window; hands lacking a tip landmark.
PinchDistances == {0, 4, 8, 9, 16, 17, 24, 25, 26, 40}
HandNoThumb == [HandHalf EXCEPT !.l4 = MISSING]
HandNoIndex == [HandHalf EXCEPT !.l8 = MISSING]
ExtractHands ==
  {<<>>, <<HandNoThumb>>, <<HandNoIndex>>}
    \cup {<<Hand(100, d, 0)>> : d \in PinchDistances}

\* <<faces, hands>> of one frame: each face with one hand, each hand with
\* one face.
ExtractDetections ==
  {<<faces, <<HandHalf>> >> : faces \in ExtractFaces}
    \cup {<< <<FaceRight>>, hands>> : hands \in ExtractHands}

\* ------------------------------------------------------ metric extraction
clamp(value, min, max) == Max(min, Min(max, value))

\* Math.hypot on the grid: the integer square root (exact for the inputs
\* above, whose distances are whole grid units).
Hypot(dx, dy) ==
  LET n == dx * dx + dy * dy
  IN CHOOSE r \in 0..(Abs(dx) + Abs(dy)) : r * r <= n /\ n < (r + 1) * (r + 1)

distance2d(a, b) ==
  IF a = MISSING \/ b = MISSING THEN 0 ELSE Hypot(a.x - b.x, a.y - b.y)

\* arr[0] of a detection list, or MISSING-filled when the list is empty
\* (optional chaining on an undefined primary subject).
NoFace == [l0 |-> MISSING, l1 |-> MISSING, l4 |-> MISSING,
           l13 |-> MISSING, l14 |-> MISSING]
NoHand == [l0 |-> MISSING, l4 |-> MISSING, l8 |-> MISSING]

facePrimary(faces) == IF Len(faces) > 0 THEN faces[1] ELSE NoFace
handPrimary(hands) == IF Len(hands) > 0 THEN hands[1] ELSE NoHand

\* (variant: landmark 4 is preferred to landmark 1)
NoseBridgeFirst(face) ==
  IF face.l4 # MISSING THEN face.l4
  ELSE IF face.l1 # MISSING THEN face.l1 ELSE face.l0

\* facePrimary?.[1] ?? facePrimary?.[4] ?? facePrimary?.[0]
Nose(face) ==
  IF face.l1 # MISSING THEN face.l1
  ELSE IF face.l4 # MISSING THEN face.l4 ELSE face.l0

\* `p?.x ?? 0.5`, in units of 1/Scale
CoordOrHalf(p, axis) ==
  IF p = MISSING THEN Scale \div 2
  ELSE (IF axis = "x" THEN p.x ELSE p.y) * UnitPow

\* (variant: the lip distance is not clamped)
JawUnclamped(face) == distance2d(face.l13, face.l14) * UnitPow

JawOf(face) == clamp(distance2d(face.l13, face.l14), 0, JawMax) * UnitPow

FaceMetricsOf(faces) ==
  LET face == facePrimary(faces) IN
  [count |-> Len(faces),
   noseX |-> CoordOrHalf(Nose(face), "x"),
   noseY |-> CoordOrHalf(Nose(face), "y"),
   jaw |-> JawOf(face)]

\* clamp((0.125 - pinchDistance) / 0.085, 0, 1), in units of 1/PinchScale
PinchNormalized(pinchDistance) ==
  clamp((PinchOpen - pinchDistance) * (PinchScale \div PinchWindow), 0, PinchScale)

HandMetricsOf(hands) ==
  LET hand == handPrimary(hands) IN
  [count |-> Len(hands),
   pinch |-> PinchNormalized(distance2d(hand.l4, hand.l8)),
   palmY |-> CoordOrHalf(hand.l0, "y")]

\* (variant: presence is raised whether or not anything was detected)
RawControlsAlwaysPresent(fm, hm) ==
  [tilt |-> fm.noseX - Scale \div 2,
   lift |-> Scale - hm.palmY,
   pinch |-> hm.pinch,
   jaw |-> fm.jaw,
   presence |-> PresenceScale]

RawControlsOf(fm, hm) ==
  [tilt |-> fm.noseX - Scale \div 2,
   lift |-> Scale - hm.palmY,
   pinch |-> hm.pinch,
   jaw |-> fm.jaw,
   presence |-> Max(IF fm.count # 0 THEN 1 ELSE 0,
                    IF hm.count # 0 THEN 1 ELSE 0) * PresenceScale]

\* -------------------------------------------------------------- smoothing
\* Smoothing factors in units of 1/AlphaDen.
smoothingWhenTracking == 11      \* 0.22
smoothingWhenMissingHand == 21   \* 0.42
pinchWhenTracking == 13          \* 0.26
jawSmoothing == 10               \* 0.2
presenceSmoothing == 15          \* 0.3

\* (variant: no smoothing, the value jumps to its target)
LerpSnap(previous, target, alpha) == target

\* previous + (target - previous) * alpha
Lerp(previous, target, alpha) ==
  previous + ((target - previous) \div AlphaDen) * alpha

\* (variant: the raw pinch is the target also when no hand is tracked)
PinchTargetRaw(hm, raw) == raw.pinch

PinchTarget(hm, raw) == IF hm.count > 0 THEN raw.pinch ELSE 0

PinchAlpha(hm) == IF hm.count > 0 THEN pinchWhenTracking ELSE smoothingWhenMissingHand

SmoothControls(prev, raw, hm) ==
  [tilt |-> Lerp(prev.tilt, raw.tilt, smoothingWhenTracking),
   lift |-> Lerp(prev.lift, raw.lift, smoothingWhenTracking),
   pinch |-> Lerp(prev.pinch, PinchTarget(hm, raw), PinchAlpha(hm)),
   jaw |-> Lerp(prev.jaw, raw.jaw, jawSmoothing),
   presence |-> Lerp(prev.presence, raw.presence, presenceSmoothing)]

\* --------------------------------------------------------------- runFrame
UiInterval == 180

lifeUnchanged == UNCHANGED <<status, statusText, lastTransition, tasksModuleRef,
                             videoSrcObject, calls, liveStreams, stopRequested>>

\* The display refreshes: every callback pending now runs in this refresh,
\* with the refresh's timestamp.
AnimationFrame(dt) ==
  /\ frameQueue = {}
  /\ pendingFrames # {}
  /\ now' = now + dt
  /\ frameQueue' = pendingFrames
  /\ UNCHANGED <<runtime, pendingFrames, faceMetrics, handMetrics,
                 rawControls, detectorLog>>
  /\ lifeUnchanged
  /\ graphUnchanged
  /\ pickerUnchanged
  /\ prototypeUnchanged

\* The display refreshes while the capture is stopped and no callback is
\* pending: time passes, nothing runs.
IdleRefresh(dt) ==
  /\ stopRequested
  /\ frameQueue = {}
  /\ pendingFrames = {}
  /\ now' = now + dt
  /\ UNCHANGED <<runtime, pendingFrames, frameQueue, faceMetrics, handMetrics,
                 rawControls, detectorLog>>
  /\ lifeUnchanged
  /\ graphUnchanged
  /\ pickerUnchanged
  /\ prototypeUnchanged

\* (variant: a missing 2D context does not end the pass)
SkipsFrameIgnoringContext(rt, ctxOk) ==
  rt.stream = NULL \/ ~rt.faceLandmarker \/ ~rt.handLandmarker

\* The guard of runFrame: no frame to work on.
SkipsFrame(rt, ctxOk) ==
  rt.stream = NULL \/ ~rt.faceLandmarker \/ ~rt.handLandmarker \/ ~ctxOk

\* (variant: the detectors are given the time since the previous frame)
DetectTimestampSinceLast(timestamp, rt) == timestamp - rt.lastFrameTimestamp

\* The timestamp runFrame passes to detectForVideo: its own argument.
DetectTimestamp(timestamp, rt) == timestamp

\* updateNodeSnapshots: the preview sources of the nodes nodesRef shows as
\* observed.
ActiveSources(nodeSnapshot) ==
  {nodeSnapshot[i].previewSource :
     i \in {j \in 1..Len(nodeSnapshot) : nodeSnapshot[j].previewEnabled}}

\* (variant: ensurePreviewContext does not consult activeSources)
ensurePreviewContextAlways(activeSources) == PreviewKeys

\* ensurePreviewContext: the sources a preview is drawn and encoded for
\* (the preview canvases and the stage canvas exist in the browser).
ensurePreviewContext(activeSources) == activeSources

\* previewUrls of one snapshot: an image per rendered source, encoded from
\* frame number frame.
PreviewUrlsOf(rendered, frame) ==
  [k \in PreviewKeys |-> IF k \in rendered THEN frame ELSE UNDEFINED]

\* One pass of runFrame as callback f of the current refresh; faces and
\* hands are what the two detectors return, ctxOk whether the source canvas
\* yields a 2D context.
RunFrame(f, faces, hands, ctxOk) ==
  /\ f \in frameQueue
  /\ frameQueue' = frameQueue \ {f}
  /\ UNCHANGED now
  /\ LET timestamp == now
         next == FreshFrame(pendingFrames \ {f})
     IN
       /\ pendingFrames' = (pendingFrames \ {f}) \cup {next}
       /\ IF SkipsFrame(runtime, ctxOk)
          THEN /\ runtime' = [runtime EXCEPT !.rafId = next]
               /\ UNCHANGED <<faceMetrics, handMetrics, rawControls,
                              detectorLog, nodes, nodeBase, nodeUpdates,
                              nodesRef>>
          ELSE LET detectAt == DetectTimestamp(timestamp, runtime)
                   fm == FaceMetricsOf(faces)
                   hm == HandMetricsOf(hands)
                   raw == RawControlsOf(fm, hm)
                   controls == SmoothControls(runtime.smoothedControls, raw, hm)
                   frame == runtime.frameCount + 1
                   uiUpdate == timestamp - runtime.lastUiUpdate > UiInterval
                   rendered == ensurePreviewContext(ActiveSources(nodesRef))
               IN
                 /\ detectorLog' =
                      [faceCalls |-> detectorLog.faceCalls + 1,
                       handCalls |-> detectorLog.handCalls + 1,
                       faceTimestamp |-> detectAt, handTimestamp |-> detectAt,
                       stageCalls |-> detectorLog.stageCalls + 1]
                 /\ faceMetrics' = fm
                 /\ handMetrics' = hm
                 /\ rawControls' = raw
                 /\ runtime' =
                      [runtime EXCEPT
                         !.smoothedControls = controls,
                         !.lastFrameTimestamp = timestamp,
                         !.frameCount = frame,
                         !.lastUiUpdate =
                            IF uiUpdate THEN timestamp ELSE runtime.lastUiUpdate,
                         !.rafId = next]
                 /\ IF uiUpdate
                    THEN /\ CanQueue("default")
                         /\ SetNodes(Update("default", "snapshot", NoId, NoNode,
                                            PreviewUrlsOf(rendered, frame)))
                    ELSE UNCHANGED <<nodes, nodeBase, nodeUpdates, nodesRef>>
  /\ UNCHANGED <<nodeIdCounterRef, edges, lastConnect, toggles>>
  /\ lifeUnchanged
  /\ pickerUnchanged
  /\ prototypeUnchanged

\* The order in which one pass of runFrame produces the data of the preview
\* sources (camera frame, face and hand detection, overlay, smoothed
\* controls, stage) and in which updateNodeSnapshots draws them.
PipelineOrder == <<"webcam", "face", "hand", "overlay", "mapper", "stage">>

\* The order in which the pass visits the nodes: that of the node list.
EvaluationOrder(ns) == [i \in 1..Len(ns) |-> ns[i].id]

\* ---------------------------------------------------------- specifications
\* No update of the node list waits for a render.  Where the node previews
\* are not in use React renders the update of a frame callback before any
\* other task runs; the handlers below leave the waiting updates alone
\* and Render leaves everything else alone.
Rendered == nodeUpdates = <<>>

\* A processed frame is allowed while fewer than max frames were processed.
MayRun(max, ctxOk) == SkipsFrame(runtime, ctxOk) \/ runtime.frameCount < max

Next ==
  \/ Rendered /\ StartLive
  \/ Rendered /\ ImportResolved
  \/ Rendered /\ FilesetResolved
  \/ Rendered /\ FaceCreated
  \/ Rendered /\ HandCreated
  \/ Rendered /\ GumResolved
  \/ Rendered /\ PlayResolved
  \/ Rendered /\ \E a \in Awaits : StartFailed(a)
  \/ Rendered /\ StopLive
  \/ Rendered /\ ResetLayout
  \/ Render
  \/ Rendered /\ \E dt \in FrameDeltas : now + dt <= MaxTime /\ AnimationFrame(dt)
  \/ \E f \in FrameIds, det \in LifeDetections, ctxOk \in BOOLEAN :
       MayRun(MaxTicks, ctxOk) /\ RunFrame(f, det[1], det[2], ctxOk)

Spec == Init /\ [][Next]_vars

\* One session at a time (a single startLive in flight, no failures), with
\* the full set of detector results on every frame.
SmoothNext ==
  \/ Rendered /\ InFlight = 0 /\ StartLive
  \/ Rendered /\ ImportResolved
  \/ Rendered /\ FilesetResolved
  \/ Rendered /\ FaceCreated
  \/ Rendered /\ HandCreated
  \/ Rendered /\ GumResolved
  \/ Rendered /\ PlayResolved
  \/ Rendered /\ StopLive
  \/ Render
  \/ Rendered /\ runtime.frameCount < MaxSmoothTicks /\ AnimationFrame(100)
  \/ \E f \in FrameIds, faces \in SmoothFaces, hands \in SmoothHands :
       MayRun(MaxSmoothTicks, TRUE) /\ RunFrame(f, faces, hands, TRUE)

SmoothSpec == Init /\ [][SmoothNext]_vars

\* One session at a time, a display refresh every 200 ms, and detector
\* results that cover the cases of the metric extraction.
ExtractNext ==
  \/ Rendered /\ InFlight = 0 /\ StartLive
  \/ Rendered /\ ImportResolved
  \/ Rendered /\ FilesetResolved
  \/ Rendered /\ FaceCreated
  \/ Rendered /\ HandCreated
  \/ Rendered /\ GumResolved
  \/ Rendered /\ PlayResolved
  \/ Rendered /\ StopLive
  \/ Render
  \/ Rendered /\ runtime.frameCount < MaxExtractTicks /\ AnimationFrame(200)
  \/ \E f \in FrameIds, det \in ExtractDetections :
       MayRun(MaxExtractTicks, TRUE) /\ RunFrame(f, det[1], det[2], TRUE)

ExtractSpec == Init /\ [][ExtractNext]_vars

\* The eye buttons clicked under PreviewSpec are those of the nodes that
\* show the camera or the face, the template picked is the camera source
\* (a second node with the preview source of the webcam node).
PreviewedNodes ==
  {ns \in NodeIds(nodes) :
     \E i \in 1..Len(nodes) :
       nodes[i].id = ns /\ nodes[i].previewSource \in {"webcam", "face"}}
PickedTemplates == {t \in NODE_LIBRARY : t.previewSource = "webcam"}

\* One session at a time with the node previews in use: eye buttons, the
\* node picker and Reset Graph between the frames.
PreviewNext ==
  \/ InFlight = 0 /\ status # "live" /\ StartLive
  \/ ImportResolved
  \/ FilesetResolved
  \/ FaceCreated
  \/ HandCreated
  \/ GumResolved
  \/ PlayResolved
  \/ ResetLayout
  \/ Render
  \/ \E nodeId \in PreviewedNodes : toggleNodePreview(nodeId)
  \/ \E template \in PickedTemplates : spawnNodeFromTemplate(template)
  \/ \E dt \in FrameDeltas :
       runtime.frameCount < MaxPreviewTicks /\ AnimationFrame(dt)
  \/ \E f \in FrameIds :
       MayRun(MaxPreviewTicks, TRUE) /\ RunFrame(f, <<FaceRight>>, <<HandHalf>>, TRUE)

PreviewSpec == Init /\ [][PreviewNext]_vars

\* Connections dragged under GraphSpec: onto the input of the face node
\* from the overlay it feeds (closing a cycle), and onto the input of the
\* stage from the face node.
ConnectionGestures == {Edge("overlay", "face"), Edge("face", "stage")}

\* Deletions are allowed while fewer than MaxRemovals initial edges are gone.
MayRemove == Cardinality(INITIAL_EDGES \ edges) < MaxRemovals

\* One session, ended by Reset Graph, with the graph being edited while it
\* is live: the node picker, deletions of nodes and edges and dragged
\* connections.
GraphNext ==
  \/ InFlight = 0 /\ status = "idle" /\ ~stopRequested /\ StartLive
  \/ ImportResolved
  \/ FilesetResolved
  \/ FaceCreated
  \/ HandCreated
  \/ GumResolved
  \/ PlayResolved
  \/ ResetLayout
  \/ Render
  \/ \E template \in PickedTemplates :
       /\ status = "live"
       /\ nodeIdCounterRef <= MaxGraphSpawns
       /\ spawnNodeFromTemplate(template)
  \/ \E nodeId \in NodeIds(nodes) :
       status = "live" /\ MayRemove /\ nodesRemoved(nodeId)
  \/ \E e \in edges : status = "live" /\ MayRemove /\ edgesRemoved(e)
  \/ \E g \in ConnectionGestures : status = "live" /\ connectGesture(g[1], g[2])
  \/ runtime.frameCount < MaxGraphTicks /\ AnimationFrame(200)
  \/ \E f \in FrameIds :
       MayRun(MaxGraphTicks, TRUE) /\ RunFrame(f, <<FaceRight>>, <<HandHalf>>, TRUE)

GraphSpec == Init /\ [][GraphNext]_vars

\* Sessions one after another: Stop, one display refresh 50 ms on while
\* stopped, and a new Start Live.
IdleDelta == 50

RestartNext ==
  \/ Rendered /\ InFlight = 0 /\ status # "live" /\ StartLive
  \/ Rendered /\ ImportResolved
  \/ Rendered /\ FilesetResolved
  \/ Rendered /\ FaceCreated
  \/ Rendered /\ HandCreated
  \/ Rendered /\ GumResolved
  \/ Rendered /\ PlayResolved
  \/ Rendered /\ StopLive
  \/ Render
  \/ Rendered /\ now % (2 * IdleDelta) = 0 /\ IdleRefresh(IdleDelta)
  \/ Rendered /\ \E dt \in FrameDeltas :
       runtime.frameCount < MaxRestartTicks /\ AnimationFrame(dt)
  \/ \E f \in FrameIds :
       MayRun(MaxRestartTicks, TRUE) /\ RunFrame(f, <<FaceRight>>, <<HandHalf>>, TRUE)

RestartSpec == Init /\ [][RestartNext]_vars

\* ------------------------------------------------------------- part_000
\* The LiteGraph prototype: one state object, a graph of six nodes run once
\* per display refresh by the loop that bootstrap() starts, and the three
\* buttons.  Metrics and controls are in units of 1/Grid, presence is 0 or 1.
legacyOnly == UNCHANGED <<status, statusText, runtime, tasksModuleRef,
                          videoSrcObject, calls, pendingFrames, frameQueue,
                          liveStreams, now, faceMetrics, handMetrics,
                          rawControls, lastTransition, stopRequested, nodes,
                          nodeBase, nodeUpdates, nodesRef, nodeIdCounterRef,
                          edges, detectorLog, lastConnect, toggles, nodePicker,
                          lastPaneClickRef, reactFlowInstanceRef, paneClickLog>>

setStatus(u, text) == [u EXCEPT !.statusPill = text]

\* The click handler of Start after `await ensureModelsLoaded()`:
\* startCamera returns at once when a stream is held, and then
\* startGraphLoop returns because the loop runs since bootstrap (rafId set)
\* and the finally block enables the button; else getUserMedia is awaited.
startCamera(st, u) ==
  IF st.stream # NULL
  THEN /\ state' = st
       /\ ui' = [u EXCEPT !.startBtnDisabled = FALSE]
       /\ startAwait' = "none"
  ELSE /\ state' = st
       /\ ui' = u
       /\ startAwait' = "gum"

\* Click on Start: the button is disabled, ensureModelsLoaded returns at
\* once when the models are ready.
startBtnClick ==
  /\ ~ui.startBtnDisabled
  /\ startAwait = "none"
  /\ IF state.modelsReady
     THEN startCamera(state, [ui EXCEPT !.startBtnDisabled = TRUE])
     ELSE /\ ui' = setStatus([ui EXCEPT !.startBtnDisabled = TRUE],
                             "Loading models...")
          /\ startAwait' = "fileset"
          /\ UNCHANGED state
  /\ UNCHANGED links
  /\ legacyOnly

\* FilesetResolver.forVisionTasks resolves.
visionResolved ==
  /\ startAwait = "fileset"
  /\ startAwait' = "face"
  /\ UNCHANGED <<state, ui, links>>
  /\ legacyOnly

\* FaceLandmarker.createFromOptions resolves.
faceLandmarkerCreated ==
  /\ startAwait = "face"
  /\ state' = [state EXCEPT !.faceLandmarker = TRUE]
  /\ startAwait' = "hand"
  /\ UNCHANGED <<ui, links>>
  /\ legacyOnly

\* HandLandmarker.createFromOptions resolves: models ready, then startCamera.
handLandmarkerCreated ==
  /\ startAwait = "hand"
  /\ startCamera([state EXCEPT !.handLandmarker = TRUE, !.modelsReady = TRUE],
                 setStatus(ui, "Models ready"))
  /\ UNCHANGED links
  /\ legacyOnly

\* getUserMedia resolves: the stream goes to the video element, play() is
\* awaited; state.stream is not set yet.
userMediaResolved ==
  /\ startAwait = "gum"
  /\ ui' = [ui EXCEPT !.webcamSrcObject = 1]
  /\ startAwait' = "play"
  /\ UNCHANGED <<state, links>>
  /\ legacyOnly

\* play() resolves: the stream is stored and the camera is ready.
webcamPlaying ==
  /\ startAwait = "play"
  /\ state' = [state EXCEPT !.stream = 1, !.cameraReady = TRUE]
  /\ ui' = [setStatus(ui, "Camera running") EXCEPT !.startBtnDisabled = FALSE]
  /\ startAwait' = "none"
  /\ UNCHANGED links
  /\ legacyOnly

\* An awaited step rejects: the catch and finally blocks of the handler.
startRejected ==
  /\ startAwait # "none"
  /\ ui' = [setStatus(ui, "Failed to start") EXCEPT !.startBtnDisabled = FALSE]
  /\ startAwait' = "none"
  /\ UNCHANGED <<state, links>>
  /\ legacyOnly

\* Click on Stop: stopCamera, which returns at once when no stream is held.
stopCamera ==
  /\ IF state.stream = NULL
     THEN UNCHANGED <<state, ui>>
     ELSE /\ state' = [state EXCEPT !.stream = NULL, !.cameraReady = FALSE]
          /\ ui' = [setStatus(ui, "Camera stopped") EXCEPT
                      !.webcamSrcObject = NULL]
  /\ UNCHANGED <<links, startAwait>>
  /\ legacyOnly

\* Click on Reset: createDefaultGraph builds the six nodes and their links
\* anew (no data on the links), then the status text.
createDefaultGraph ==
  /\ links' = NoData
  /\ ui' = setStatus(ui, "Graph reset")
  /\ UNCHANGED <<state, startAwait>>
  /\ legacyOnly

\* ---- the nodes of the graph, in the order runStep executes them
HAVE_CURRENT_DATA == 2

\* WebcamSourceNode.onExecute: the frame output (the second output, timeMs,
\* is the clock and is left out).
WebcamSourceNode(st, readyState, step) ==
  IF ~st.cameraReady \/ readyState < HAVE_CURRENT_DATA THEN NULL ELSE step

\* FaceExtractNode.onExecute: <<landmarks, metrics>>
FaceExtractNode(st, frame, faces) ==
  IF frame = NULL \/ ~st.modelsReady \/ ~st.faceLandmarker
  THEN <<0, NullFaceMetrics>>
  ELSE LET face == facePrimary(faces)
           nose == IF face.l1 # MISSING THEN face.l1
                   ELSE IF face.l4 # MISSING THEN face.l4 ELSE face.l0
       IN <<Len(faces),
            [isNull |-> FALSE,
             count |-> Len(faces),
             noseX |-> IF nose # MISSING THEN nose.x ELSE Grid \div 2,
             noseY |-> IF nose # MISSING THEN nose.y ELSE Grid \div 2,
             jaw |-> distance2d(face.l13, face.l14)]>>

\* HandExtractNode.onExecute: <<landmarks, metrics>>
HandExtractNode(st, frame, hands) ==
  IF frame = NULL \/ ~st.modelsReady \/ ~st.handLandmarker
  THEN <<0, NullHandMetrics>>
  ELSE LET hand == handPrimary(hands) IN
       <<Len(hands),
         [isNull |-> FALSE,
          count |-> Len(hands),
          pinch |-> IF Len(hands) > 0
                    THEN clamp(Grid - distance2d(hand.l4, hand.l8) * 8, 0, Grid)
                    ELSE 0,
          palmY |-> IF hand.l0 # MISSING THEN hand.l0.y ELSE Grid \div 2]>>

\* LandmarkOverlayNode.onExecute: the image output
LandmarkOverlayNode(frame) == frame

\* (variant: a missing metric reads as 0)
GestureMapperNodeZeroDefaults(face, hand) ==
  [tilt |-> (IF face.isNull THEN 0 ELSE face.noseX) - Grid \div 2,
   lift |-> Grid - (IF hand.isNull THEN 0 ELSE hand.palmY),
   pinch |-> IF hand.isNull THEN 0 ELSE hand.pinch,
   jaw |-> IF face.isNull THEN 0 ELSE face.jaw,
   presence |-> Max(IF ~face.isNull /\ face.count # 0 THEN 1 ELSE 0,
                    IF ~hand.isNull /\ hand.count # 0 THEN 1 ELSE 0)]

\* GestureMapperNode.onExecute: a null input reads as the empty object.
GestureMapperNode(face, hand) ==
  [tilt |-> (IF face.isNull THEN Grid \div 2 ELSE face.noseX) - Grid \div 2,
   lift |-> Grid - (IF hand.isNull THEN Grid \div 2 ELSE hand.palmY),
   pinch |-> IF hand.isNull THEN 0 ELSE hand.pinch,
   jaw |-> IF face.isNull THEN 0 ELSE face.jaw,
   presence |-> Max(IF ~face.isNull /\ face.count # 0 THEN 1 ELSE 0,
                    IF ~hand.isNull /\ hand.count # 0 THEN 1 ELSE 0)]

\* The trail of drawStage: a point of life 1 (TrailLife units of 0.02) is
\* pushed when presence > 0, the oldest dropped beyond TrailMax, every life
\* lowered by 0.02 and the spent points removed.
TrailLife == 50
TrailMax == 45

drawStageTrail(trail, controls) ==
  LET pushed == Append(trail, TrailLife)
      kept == IF controls.presence > 0
              THEN (IF Len(pushed) > TrailMax THEN Tail(pushed) ELSE pushed)
              ELSE trail
      aged == [i \in 1..Len(kept) |-> Max(0, kept[i] - 1)]
  IN SelectSeq(aged, LAMBDA life : life > 0)

\* The loop callback: frameCounter, graph.runStep (source, extractors,
\* overlay, mapper, stage output with drawStage), the next callback.
loop(readyState, faces, hands) ==
  /\ state.frameCounter < MaxLegacyTicks
  /\ readyState > 0 => ui.webcamSrcObject # NULL
  /\ LET step == state.frameCounter + 1
         frame == WebcamSourceNode(state, readyState, step)
         face == FaceExtractNode(state, frame, faces)
         hand == HandExtractNode(state, frame, hands)
         image == LandmarkOverlayNode(frame)
         controls == GestureMapperNode(face[2], hand[2])
     IN /\ links' = [frame |-> frame, faceLandmarks |-> face[1],
                     faceMetrics |-> face[2], handLandmarks |-> hand[1],
                     handMetrics |-> hand[2], image |-> image,
                     controls |-> controls, executed |-> step]
        /\ state' = [state EXCEPT !.frameCounter = step,
                                  !.rafId = step + 1,
                                  !.lastFaceMetrics = face[2],
                                  !.lastHandMetrics = hand[2],
                                  !.trail = drawStageTrail(state.trail, controls)]
        /\ ui' = [ui EXCEPT !.stage = [baseImage |-> image,
                                       controls |-> controls]]
  /\ UNCHANGED startAwait
  /\ legacyOnly

\* The prototype from its bootstrap on: the loop runs on every refresh,
\* before Start, while the start is pending, live and after Stop.
ReadyStates == {0, 4}
LegacyFaces == {<<>>, <<FaceRight>>}
LegacyHands == {<<>>, <<HandHalf>>}

LegacyNext ==
  \/ startBtnClick
  \/ visionResolved
  \/ faceLandmarkerCreated
  \/ handLandmarkerCreated
  \/ userMediaResolved
  \/ webcamPlaying
  \/ startRejected
  \/ stopCamera
  \/ createDefaultGraph
  \/ \E readyState \in ReadyStates, faces \in LegacyFaces, hands \in LegacyHands :
       loop(readyState, faces, hands)

LegacySpec == Init /\ [][LegacyNext]_vars

\* The canvas before a capture is started: the flow is initialised some
\* time after the time origin of the page, then clicks on the pane at
\* varying intervals, the picker closed again or a template picked in it.
ClickGaps == {140, 150}

PickerNext ==
  \/ now > 0 /\ onInit
  \/ \E dt \in ClickGaps : now + dt <= MaxPickerTime /\ TimePasses(dt)
  \/ paneClickLog.count < MaxPaneClicks /\ handlePaneClick
  \/ nodePicker.open /\ closeNodePicker
  \/ \E template \in PickedTemplates :
       nodePicker.open /\ spawnNodeFromTemplate(template)

PickerSpec == Init /\ [][PickerNext]_vars

TypeOK ==
  /\ status \in {"idle", "loading", "live", "error"}
  /\ frameQueue \subseteq pendingFrames
  /\ runtime.stream \in StreamIds \cup {NULL}

\* ================================================================= claims
\* A step that is one processed (non-skipped) pass of runFrame.
Processed == runtime'.frameCount = runtime.frameCount + 1

sc == runtime.smoothedControls

\* ---- C1
ClaimedTransitions ==
  {<<"idle", "loading">>, <<"loading", "live">>, <<"loading", "error">>,
   <<"live", "idle">>, <<"live", "error">>, <<"error", "idle">>}

\* What the code adds: Stop while loading; Start Live retried after a
\* failure; Start Live with the models cached, or an earlier Start Live
\* finishing (or failing) after a Stop or a failure.
AddedTransitions ==
  {<<"loading", "idle">>, <<"error", "loading">>, <<"idle", "live">>,
   <<"error", "live">>, <<"idle", "error">>}

\* C1 (as claimed): the status changes only along Idle->Loading,
\* Loading->Live, Loading->Error, Live->Idle, Live->Error and Error->Idle.
C1_OnlyClaimedTransitions ==
  [][status' # status => <<status, status'>> \in ClaimedTransitions]_vars

\* C1 (amended): the status changes only along the six claimed transitions
\* and Loading->Idle, Error->Loading, Idle->Live, Error->Live, Idle->Error;
\* Live->Loading, the one remaining pair, is never taken.
C1_StatusTransitions ==
  [][status' # status =>
       <<status, status'>> \in ClaimedTransitions \cup AddedTransitions]_vars

C1_Witness == lastTransition = <<"error", "live">>

\* ---- C2
\* C2: once Stop has been invoked and until Start Live is invoked again, the
\* camera is released (runtime.stream null, no stream with live tracks) and
\* no frame callback processes a frame.
C2_StopHalts ==
  /\ [](stopRequested => runtime.stream = NULL /\ liveStreams = {})
  /\ [][stopRequested => ~Processed]_vars

\* ---- C3
\* C3: at most one frame callback is pending, at most one runs per display
\* refresh, and at most one camera stream is held.
C3_SingleLoop ==
  /\ Cardinality(pendingFrames) <= 1
  /\ Cardinality(frameQueue) <= 1
  /\ Cardinality(liveStreams) <= 1

\* ---- C4
\* C4: after Stop or Reset Graph (no Start Live invoked since) the smoothing
\* memory is the zero vector.
C4_ResetOnStop == stopRequested => sc = EMPTY_CONTROLS

\* ---- C5
\* C5: tilt in [-0.5, 0.5], lift in [0, 1], pinch in [0, 1],
\* jaw in [0, 0.085], presence in [0, 1] in every reachable state.
C5_ControlRanges ==
  /\ 0 - Scale <= 2 * sc.tilt /\ 2 * sc.tilt <= Scale
  /\ 0 <= sc.lift /\ sc.lift <= Scale
  /\ 0 <= sc.pinch /\ sc.pinch <= PinchScale
  /\ 0 <= sc.jaw /\ sc.jaw <= 17 * (Scale \div Grid)
  /\ 0 <= sc.presence /\ sc.presence <= PresenceScale

\* Three frames processed, the last with a face whose lips are further
\* apart than the clamp and with a hand.
C5_Witness ==
  /\ runtime.frameCount >= 3
  /\ faceMetrics.count = 1 /\ handMetrics.count = 1
  /\ rawControls.jaw = 17 * (Scale \div Grid)
  /\ sc.jaw > 0 /\ sc.pinch > 0 /\ sc.tilt # 0

\* ---- C6
\* next = previous + (raw - previous) * alpha, cross-multiplied by AlphaDen
Moves(previous, next, target, alpha) ==
  AlphaDen * (next - previous) = alpha * (target - previous)

\* C6: on every processed frame each channel moves from its previous value
\* toward its raw value by a factor alpha in (0,1): 0.22 for tilt and lift,
\* 0.2 for jaw, 0.3 for presence, some alpha in (0,1) for pinch.
C6_SmoothsTowardRaw ==
  [][Processed =>
       /\ Moves(sc.tilt, sc'.tilt, rawControls'.tilt,
             smoothingWhenTracking)
       /\ Moves(sc.lift, sc'.lift, rawControls'.lift,
             smoothingWhenTracking)
       /\ Moves(sc.jaw, sc'.jaw, rawControls'.jaw,
             jawSmoothing)
       /\ Moves(sc.presence, sc'.presence, rawControls'.presence,
             presenceSmoothing)
       /\ \E alpha \in 1..(AlphaDen - 1) :
            Moves(sc.pinch, sc'.pinch, rawControls'.pinch, alpha)]_vars

\* ---- C7
\* C7: the pinch factor is higher on a frame with a hand than on one
\* without, so that with no hand tracked pinch loses a smaller share of its
\* value per frame than the share of the error it closes while tracked.
C7_GentlerWhenUntracked ==
  [][Processed /\ handMetrics'.count = 0 /\ sc.pinch > 0 =>
       AlphaDen * (sc.pinch - sc'.pinch)
         < PinchAlpha([count |-> 1]) * sc.pinch]_vars

\* ---- C8
\* C8: on every processed frame with no hand tracked and pinch > 0, pinch
\* strictly decreases and stays non-negative, whatever the raw pinch is.
C8_PinchDecays ==
  [][Processed /\ handMetrics'.count = 0 /\ sc.pinch > 0 =>
       0 <= sc'.pinch /\ sc'.pinch < sc.pinch]_vars

\* Three frames processed, the last one without a hand, from a pinch above
\* 0 and with a raw pinch that is not 0.
C8_Witness ==
  /\ runtime.frameCount >= 3
  /\ handMetrics.count = 0
  /\ rawControls.pinch > 0
  /\ sc.pinch > 0

\* ---- C9
\* The error |raw - value| shrinks by exactly (1 - alpha), without overshoot.
Contracts(previous, next, raw, alpha) ==
  /\ AlphaDen * Abs(raw - next) = (AlphaDen - alpha) * Abs(raw - previous)
  /\ (previous <= raw) => (previous <= next /\ next <= raw)
  /\ (previous >= raw) => (previous >= next /\ next >= raw)

\* C9: on a processed frame whose raw value of a channel equals that of the
\* frame before, the channel moves toward raw without overshoot and its
\* error is multiplied by exactly 1 - alpha (alpha in (0,1), so at most by
\* 49/50 a frame).
C9_ConvergesToHeldRaw ==
  [][Processed /\ runtime.frameCount >= 1 =>
       /\ rawControls'.tilt = rawControls.tilt =>
            Contracts(sc.tilt, sc'.tilt, rawControls'.tilt,
             smoothingWhenTracking)
       /\ rawControls'.lift = rawControls.lift =>
            Contracts(sc.lift, sc'.lift, rawControls'.lift,
             smoothingWhenTracking)
       /\ rawControls'.jaw = rawControls.jaw =>
            Contracts(sc.jaw, sc'.jaw, rawControls'.jaw,
             jawSmoothing)
       /\ rawControls'.presence = rawControls.presence =>
            Contracts(sc.presence, sc'.presence, rawControls'.presence,
             presenceSmoothing)
       /\ rawControls'.pinch = rawControls.pinch =>
            \E alpha \in 1..(AlphaDen - 1) :
              Contracts(sc.pinch, sc'.pinch, rawControls'.pinch, alpha)]_vars

\* ---- C10
\* C10: after a frame with no face and no hand the raw metrics are
\* face count 0, noseX 0.5, noseY 0.5, jaw 0; hand count 0, pinch 0,
\* palmY 0.5.
C10_EmptyDefaults ==
  (faceMetrics.count = 0 /\ handMetrics.count = 0) =>
    /\ faceMetrics = [count |-> 0, noseX |-> Scale \div 2,
                      noseY |-> Scale \div 2, jaw |-> 0]
    /\ handMetrics = [count |-> 0, pinch |-> 0, palmY |-> Scale \div 2]

\* ---- C11
\* The reading the claim gives a hand: no tip landmark missing and the tips
\* d apart: 0 at or above 0.125, 1 at or below 0.04, linear between; a tip
\* landmark missing: less than 1.
PinchAsClaimed(hand, pinch) ==
  IF hand.l4 = MISSING \/ hand.l8 = MISSING
  THEN pinch < PinchScale
  ELSE LET d == distance2d(hand.l4, hand.l8) IN
       /\ 0 <= pinch /\ pinch <= PinchScale
       /\ d >= PinchOpen => pinch = 0
       /\ d <= PinchOpen - PinchWindow => pinch = PinchScale
       /\ (PinchOpen - PinchWindow < d /\ d < PinchOpen) =>
            pinch = (PinchOpen - d) * (PinchScale \div PinchWindow)

\* C11: on every processed frame with a hand the raw pinch is 0 when the
\* thumb and index tips are 0.125 or more apart, 1 when they are 0.04 or
\* less apart, linear between and within [0, 1], never larger than for a
\* hand whose tips are closer, and below 1 when a tip landmark is missing.
C11_RawPinch ==
  [][\A f \in frameQueue, det \in ExtractDetections :
       LET hands == det[2] IN
       (Processed /\ hands # <<>> /\ RunFrame(f, det[1], hands, TRUE)) =>
         /\ PinchAsClaimed(hands[1], handMetrics'.pinch)
         /\ handMetrics'.pinch = rawControls'.pinch
         /\ \A d \in PinchDistances :
              d <= distance2d(hands[1].l4, hands[1].l8) =>
                HandMetricsOf(<<Hand(100, d, 0)>>).pinch >= handMetrics'.pinch]_vars

\* ---- C12
RECURSIVE FirstPresent(_)
FirstPresent(landmarks) ==
  IF landmarks = <<>> THEN MISSING
  ELSE IF Head(landmarks) # MISSING THEN Head(landmarks)
  ELSE FirstPresent(Tail(landmarks))

\* C12: on every processed frame with a face, noseX and noseY are the
\* coordinates of the first present landmark among 1, 4, 0 of the primary
\* face, and 0.5 and 0.5 only when none of the three is present.
C12_NoseReference ==
  [][\A f \in frameQueue, det \in ExtractDetections :
       LET faces == det[1] IN
       (Processed /\ faces # <<>> /\ RunFrame(f, faces, det[2], TRUE)) =>
         LET ref == FirstPresent(<<faces[1].l1, faces[1].l4, faces[1].l0>>) IN
         IF ref = MISSING
         THEN faceMetrics'.noseX = Scale \div 2 /\ faceMetrics'.noseY = Scale \div 2
         ELSE /\ faceMetrics'.noseX = ref.x * UnitPow
              /\ faceMetrics'.noseY = ref.y * UnitPow]_vars

\* A frame processed whose face lacks landmark 1 and has landmark 4: the
\* reference is landmark 4, (0.7, 0.25).
C12_Witness ==
  /\ runtime.frameCount >= 1
  /\ faceMetrics.count = 1
  /\ faceMetrics.noseX = 140 * UnitPow
  /\ faceMetrics.noseY = 50 * UnitPow

\* ---- C13
\* Nodes nodesRef shows as observed when the frame callback runs.
ObservedNodes == Cardinality({i \in 1..Len(nodesRef) : nodesRef[i].previewEnabled})

Images(previewUrls) ==
  Cardinality({k \in PreviewKeys : previewUrls[k] # UNDEFINED})

\* Preview images encoded by the step: those of the snapshot update it
\* appended, none when it appended no update.
ImagesProduced ==
  IF Len(nodeUpdates') = Len(nodeUpdates) + 1
  THEN Images(nodeUpdates'[Len(nodeUpdates')].previewUrls)
  ELSE 0

\* The frame callback refreshes the node snapshots: more than 180 ms have
\* passed since it last did.
Refreshes == now - runtime.lastUiUpdate > UiInterval

\* C13 (as claimed): a processed frame produces no preview image when no
\* node is observed and exactly one when exactly one node is observed.
C13_OnePerTick ==
  [][\A f \in frameQueue :
       (Processed /\ RunFrame(f, <<FaceRight>>, <<HandHalf>>, TRUE)) =>
         /\ ObservedNodes = 0 => ImagesProduced = 0
         /\ ObservedNodes = 1 => ImagesProduced = 1]_vars

\* C13 (amended): a processed frame produces no preview image when no node
\* is observed; when exactly one node is observed it produces exactly one
\* if more than 180 ms have passed since the last frame that refreshed the
\* node snapshots, and none otherwise.
C13_PreviewCount ==
  [][\A f \in frameQueue :
       (Processed /\ RunFrame(f, <<FaceRight>>, <<HandHalf>>, TRUE)) =>
         /\ ObservedNodes = 0 => ImagesProduced = 0
         /\ ObservedNodes = 1 =>
              ImagesProduced = (IF Refreshes THEN 1 ELSE 0)]_vars

\* A frame with exactly one node observed has just refreshed the snapshots:
\* its update waits with one image in it.
C13_Witness ==
  /\ ObservedNodes = 1
  /\ runtime.frameCount >= 1
  /\ runtime.lastUiUpdate = now
  /\ Len(nodeUpdates) = 1
  /\ nodeUpdates[1].kind = "snapshot"
  /\ Images(nodeUpdates[1].previewUrls) = 1

\* ---- C14
Unobserved(ns) ==
  \A i \in 1..Len(ns) : ~ns[i].previewEnabled => ns[i].previewUrl = UNDEFINED

\* C14: in every reachable state a node whose previewEnabled is false has
\* previewUrl undefined, in the committed node list and in nodesRef.
C14_NoImageUnobserved == Unobserved(nodes) /\ Unobserved(nodesRef)

\* A snapshot update holding an image for a node's source was computed
\* while the node was observed and still waits; the node has been switched
\* off since (the toggle waits behind it, the committed list shows it off).
C14_Witness ==
  /\ Len(nodeUpdates) = 2
  /\ nodeUpdates[1].kind = "snapshot"
  /\ nodeUpdates[2].kind = "toggle"
  /\ \E i \in 1..Len(nodes) :
       /\ nodes[i].id = nodeUpdates[2].id
       /\ ~nodes[i].previewEnabled
       /\ nodeUpdates[1].previewUrls[nodes[i].previewSource] # UNDEFINED

\* ---- C15
Successors(E, S) == {e[2] : e \in {x \in E : x[1] \in S}}

\* The nodes reachable from the nodes S along the edges E.
RECURSIVE ReachFrom(_, _)
ReachFrom(E, S) ==
  LET next == S \cup Successors(E, S)
  IN IF next = S THEN S ELSE ReachFrom(E, next)

Acyclic(E) == \A e \in E : e[1] \notin ReachFrom(E, {e[2]})

\* C15: the edge set is acyclic in every reachable state.
C15_Acyclic == Acyclic(edges)

\* A node spawned, edges removed and the graph reset since.
C15_Witness ==
  /\ nodeIdCounterRef > 1
  /\ edges # INITIAL_EDGES /\ edges # {}
  /\ statusText = "Graph reset"
  /\ nodes = INITIAL_NODES

\* ---- C16
\* C16: every input port (the one target handle of a node) receives from
\* at most one edge.
C16_SingleWriter ==
  \A e1, e2 \in edges : e1[2] = e2[2] => e1 = e2

\* ---- C17
\* C17: a connection that would close a cycle is rejected with
\* CycleDetected and leaves the node and edge sets unchanged.
C17_CycleRejected ==
  [][\A g \in ConnectionGestures :
       (connectGesture(g[1], g[2]) /\ ~Acyclic(edges \cup {g})) =>
         /\ lastConnect'.error = "CycleDetected"
         /\ UNCHANGED <<nodes, edges>>]_vars

\* ---- C18
IndexIn(seq, x) == CHOOSE i \in 1..Len(seq) : seq[i] = x

\* Creation stamp of a node id: the initial nodes in their listed order,
\* then the spawned nodes by their counter.
Created(id) ==
  IF id[2] = 0 THEN IndexIn(EvaluationOrder(INITIAL_NODES), id)
  ELSE Len(INITIAL_NODES) + id[2]

SourceOf(ns, id) == ns[IndexIn(EvaluationOrder(ns), id)].previewSource

OrderedByEdges(ns, E) ==
  LET order == EvaluationOrder(ns) IN
  /\ \A i, j \in 1..Len(order) : order[i] = order[j] => i = j
  /\ \A e \in E :
       /\ e[1] \in NodeIds(ns) /\ e[2] \in NodeIds(ns)
       /\ IndexIn(order, e[1]) < IndexIn(order, e[2])
       /\ IndexIn(PipelineOrder, SourceOf(ns, e[1]))
            < IndexIn(PipelineOrder, SourceOf(ns, e[2]))
  /\ \A i, j \in 1..Len(order) : i < j => Created(order[i]) < Created(order[j])

NoFrameAvailable(ctxOk) ==
  \/ runtime.stream = NULL
  \/ ~runtime.faceLandmarker
  \/ ~runtime.handLandmarker
  \/ ~ctxOk

\* C19: a pass of the frame callback with no frame available invokes no
\* detector, leaves smoothedControls, frameCount, lastFrameTimestamp and
\* lastUiUpdate unchanged, and requests exactly one next frame callback.
C19_SkipIsNoOp ==
  [][\A f \in frameQueue, det \in LifeDetections, ctxOk \in BOOLEAN :
       (NoFrameAvailable(ctxOk) /\ RunFrame(f, det[1], det[2], ctxOk)) =>
         /\ detectorLog' = detectorLog
         /\ runtime'.smoothedControls = runtime.smoothedControls
         /\ runtime'.frameCount = runtime.frameCount
         /\ runtime'.lastFrameTimestamp = runtime.lastFrameTimestamp
         /\ runtime'.lastUiUpdate = runtime.lastUiUpdate
         /\ pendingFrames \ {f} \subseteq pendingFrames'
         /\ Cardinality(pendingFrames') = Cardinality(pendingFrames)
         /\ runtime'.rafId \in pendingFrames' \ (pendingFrames \ {f})]_vars

\* After frames were processed, a pass has run without a stream: the
\* handle it stored is pending while the stream is null.
C19_Witness ==
  /\ runtime.stream = NULL
  /\ runtime.rafId # NULL
  /\ runtime.rafId \in pendingFrames
  /\ detectorLog.faceCalls >= 1

\* ---- C20
\* C20: every processed frame calls the face detector once and the hand
\* detector once, both with the same timestamp, which is not below the
\* timestamp of the detector's previous call (in this or an earlier
\* session); no other step calls a detector.
C20_DetectorCalls ==
  [][/\ Processed =>
          /\ detectorLog'.faceCalls = detectorLog.faceCalls + 1
          /\ detectorLog'.handCalls = detectorLog.handCalls + 1
          /\ detectorLog'.faceTimestamp = detectorLog'.handTimestamp
          /\ detectorLog'.faceTimestamp >= detectorLog.faceTimestamp
          /\ detectorLog'.handTimestamp >= detectorLog.handTimestamp
     /\ ~Processed => detectorLog' = detectorLog]_vars

\* A frame was processed at a whole multiple of 100 ms (no refresh while
\* stopped had happened yet) and the last detector calls were made after
\* the refresh that happens while stopped: a Stop and a new Start Live lie
\* between the two.
C20_Witness ==
  /\ runtime.lastUiUpdate > 0
  /\ runtime.lastUiUpdate % (2 * IdleDelta) = 0
  /\ detectorLog.faceTimestamp % (2 * IdleDelta) = IdleDelta
  /\ detectorLog.handTimestamp = detectorLog.faceTimestamp
  /\ detectorLog.faceCalls >= 2

\* ---- C21
\* C21: when an awaited step of Start Live fails the status becomes "error"
\* and no frame callback is left pending or running while the status is
\* "error"; when a later Start Live reaches "live" exactly one frame
\* callback is pending.
C21_FailedStartLeavesNoLoop ==
  /\ [][(\E a \in Awaits : StartFailed(a)) => status' = "error"]_vars
  /\ [](status = "error" => pendingFrames = {} /\ frameQueue = {})
  /\ [][PlayResolved => Cardinality(pendingFrames') = 1]_vars

\* ---- C22
\* noseX 0.5 / 0.7 and the tilt 0.2, in units of 1/Scale
NoseHalf == 100 * UnitPow
NoseSeven == 140 * UnitPow
TiltFifth == 40 * UnitPow

\* the frame just processed had a face with this noseX and no hand
Saw(fm, hm, noseX) == fm.count > 0 /\ fm.noseX = noseX /\ hm.count = 0

\* C22: from zero control values, three consecutive processed frames with
\* noseX 0.5, 0.7, 0.7 and no hand give tilt t1 = 0 < t2 < t3 < 0.2, and
\* pinch is 0 after each of the three.
C22_TiltScenario ==
  /\ [][(/\ Processed
         /\ sc = EMPTY_CONTROLS
         /\ Saw(faceMetrics', handMetrics', NoseHalf))
        => sc'.tilt = 0 /\ sc'.pinch = 0]_vars
  /\ [][(/\ Processed
         /\ Saw(faceMetrics, handMetrics, NoseHalf)
         /\ sc.tilt = 0 /\ sc.pinch = 0
         /\ Saw(faceMetrics', handMetrics', NoseSeven))
        => 0 < sc'.tilt /\ sc'.tilt < TiltFifth /\ sc'.pinch = 0]_vars
  /\ [][(/\ Processed
         /\ Saw(faceMetrics, handMetrics, NoseSeven)
         /\ 0 < sc.tilt /\ sc.tilt < TiltFifth /\ sc.pinch = 0
         /\ Saw(faceMetrics', handMetrics', NoseSeven))
        => sc.tilt < sc'.tilt /\ sc'.tilt < TiltFifth /\ sc'.pinch = 0]_vars

\* the state after the third frame of the scenario: tilt 0.07832
C22_Witness ==
  /\ runtime.frameCount = 3
  /\ Saw(faceMetrics, handMetrics, NoseSeven)
  /\ sc.tilt = Lerp(Lerp(0, TiltFifth, smoothingWhenTracking), TiltFifth,
                    smoothingWhenTracking)
  /\ sc.tilt > Lerp(0, TiltFifth, smoothingWhenTracking)
  /\ sc.pinch = 0

\* ---- C23
\* the frame just processed had no face and no hand
Empty(fm, hm) == fm.count = 0 /\ hm.count = 0

\* C23: a processed frame with no face and no hand leaves the status and its
\* text as they were, calls the stage renderer once, and multiplies presence
\* by 0.7 (so presence never rises, falls strictly while positive, and after
\* n such frames is 0.7^n of its prior value).
C23_EmptyTicksOrdinary ==
  [][(Processed /\ Empty(faceMetrics', handMetrics')) =>
       /\ status' = status
       /\ statusText' = statusText
       /\ detectorLog'.stageCalls = detectorLog.stageCalls + 1
       /\ Moves(sc.presence, sc'.presence, 0, presenceSmoothing)
       /\ sc'.presence <= sc.presence
       /\ sc.presence > 0 => sc'.presence < sc.presence]_vars

\* a frame with a subject, then two empty frames in a live session: presence
\* 0.3, 0.21, 0.147
C23_Witness ==
  /\ status = "live"
  /\ Empty(faceMetrics, handMetrics)
  /\ runtime.frameCount = 3
  /\ detectorLog.stageCalls = 3
  /\ sc.presence = Lerp(Lerp(Lerp(0, PresenceScale, presenceSmoothing), 0,
                             presenceSmoothing), 0, presenceSmoothing)
  /\ sc.presence > 0

\* ---- C25
\* the state Reset Graph leaves: the six initial nodes (no preview on, no
\* preview image, no spawned node), no camera, no frame callback, status idle
ResetState ==
  /\ nodes = INITIAL_NODES
  /\ nodesRef = INITIAL_NODES
  /\ \A i \in 1..Len(nodes) :
       ~nodes[i].previewEnabled /\ nodes[i].previewUrl = UNDEFINED
  /\ runtime.stream = NULL
  /\ liveStreams = {}
  /\ pendingFrames = {}
  /\ status = "idle"

\* C25: Reset Graph leaves the six initial nodes with every preview off and
\* no image, no spawned node, the camera stopped and status idle; until the
\* next Start Live is invoked the camera stays stopped and the status idle,
\* also when a Start Live was pending at the click.
C25_ResetRestores ==
  /\ [][ResetLayout => ResetState']_vars
  /\ [](stopRequested =>
          /\ status = "idle"
          /\ runtime.stream = NULL
          /\ liveStreams = {}
          /\ pendingFrames = {})

\* ---- C27
Unique(ns) == \A i, j \in 1..Len(ns) : ns[i].id = ns[j].id => i = j

\* an id made by spawnNodeFromTemplate: a template id and a counter value
\* already handed out
SpawnedId(id) ==
  /\ \E template \in NODE_LIBRARY : template.templateId = id[1]
  /\ 1 <= id[2]
  /\ id[2] < nodeIdCounterRef

\* C27: no two nodes share an id, in the rendered list and in nodesRef; every
\* id is an initial id or a template id with a counter value handed out
\* earlier, never both; the counter never decreases (Reset Graph leaves it).
C27_UniqueIds ==
  /\ [](Unique(nodes) /\ Unique(nodesRef))
  /\ [](\A i \in 1..Len(nodes) :
          (nodes[i].id \in NodeIds(INITIAL_NODES)) # SpawnedId(nodes[i].id))
  /\ [][nodeIdCounterRef' >= nodeIdCounterRef]_vars
  /\ [][ResetLayout => nodeIdCounterRef' = nodeIdCounterRef]_vars

\* a spawn, Reset Graph, then a spawn of the same template and a toggle
C27_Witness ==
  /\ stopRequested
  /\ toggles >= 1
  /\ Len(nodes) = 7
  /\ nodes[7].id = <<"camera-source", 2>>

\* ---- C28
\* the session is live: models ready, the frame callback named by rafId pending
Live ==
  /\ status = "live"
  /\ ModelsCached(runtime)
  /\ runtime.rafId # NULL
  /\ runtime.rafId \in pendingFrames

\* C28: Start Live invoked while the session is live changes nothing: no
\* further frame callback, no new camera stream, no model reload (no
\* invocation left waiting), status "live" and the same control values.
C28_StartWhileLiveIsNoOp ==
  [][(Live /\ StartLive) =>
       /\ pendingFrames' = pendingFrames
       /\ liveStreams' = liveStreams
       /\ calls' = calls
       /\ runtime' = runtime
       /\ tasksModuleRef' = tasksModuleRef
       /\ videoSrcObject' = videoSrcObject
       /\ status' = "live"
       /\ statusText' = statusText]_vars

\* Start Live has been clicked in a live session after a processed frame
C28_Witness ==
  /\ Live
  /\ ~stopRequested
  /\ InFlight = 0
  /\ frameQueue = {}
  /\ Rendered
  /\ runtime.frameCount >= 1
  /\ sc # EMPTY_CONTROLS
  /\ lastTransition = <<"loading", "live">>

\* ---- C29
\* C29: status "live" implies a camera stream is held and a frame callback
\* is pending (or running); status "idle" or "error" implies no stream is
\* held and no frame callback is pending.
C29_StatusMatchesResources ==
  /\ status = "live" =>
       /\ runtime.stream # NULL
       /\ runtime.stream \in liveStreams
       /\ pendingFrames \cup frameQueue # {}
  /\ status \in {"idle", "error"} =>
       /\ runtime.stream = NULL
       /\ liveStreams = {}
       /\ pendingFrames = {}
       /\ frameQueue = {}

\* ---- C30
\* node after is node before with the flag flipped; the image and the hint
\* are the only other fields that may differ
Flipped(before, after) ==
  /\ after.previewEnabled = ~before.previewEnabled
  /\ [after EXCEPT !.previewEnabled = before.previewEnabled,
                   !.previewUrl = before.previewUrl,
                   !.previewHint = before.previewHint] = before

HintMatchesFlag(ns) ==
  \A i \in 1..Len(ns) :
    (ns[i].previewHint = PREVIEW_OFF_HINT) <=> ~ns[i].previewEnabled

\* C30: a click on the eye button of a node flips the previewEnabled flag of
\* that node and leaves every other node, the edges, the status and the
\* control values as they were; toggling a node twice restores its flag; in
\* every reachable state the hint of a node is the preview-off hint exactly
\* when its previewEnabled is false.
C30_ToggleIsLocal ==
  /\ [][\A nodeId \in NodeIds(nodes) :
          toggleNodePreview(nodeId) =>
            /\ Len(nodes') = Len(nodes)
            /\ \A i \in 1..Len(nodes) :
                 IF nodes[i].id = nodeId THEN Flipped(nodes[i], nodes'[i])
                 ELSE nodes'[i] = nodes[i]
            /\ edges' = edges
            /\ status' = status
            /\ statusText' = statusText
            /\ runtime' = runtime
            /\ rawControls' = rawControls]_vars
  /\ [](\A i \in 1..Len(nodes) :
          ToggledNode(ToggledNode(nodes[i])).previewEnabled
            = nodes[i].previewEnabled)
  /\ [](HintMatchesFlag(nodes) /\ HintMatchesFlag(nodesRef))

\* one node toggled twice, nothing else done: every preview is off again
C30_Witness ==
  /\ toggles = 2
  /\ ~stopRequested
  /\ status = "idle"
  /\ nodes = INITIAL_NODES

\* ---- C26
\* the picker opens in this step
Opens == ~nodePicker.open /\ nodePicker'.open

\* C26: the picker opens only on a pane click that follows an earlier pane
\* click by at most 280 ms, the earlier click not being one that opened the
\* picker itself; so a single click never opens it, at any page time.
C26_DoubleClickOnly ==
  [][Opens =>
       /\ paneClickLog'.count = paneClickLog.count + 1
       /\ paneClickLog.count >= 1
       /\ ~paneClickLog.opened
       /\ now - paneClickLog.last <= DoubleClickWindow]_vars

\* ---- C24
\* tilt 0, lift 0.5, pinch 0, jaw 0, presence 0 (units of 1/Grid)
NeutralControls ==
  [tilt |-> 0, lift |-> Grid \div 2, pinch |-> 0, jaw |-> 0, presence |-> 0]

\* a step of the part_000 graph has run
Stepped == state'.frameCounter = state.frameCounter + 1

\* C24: a step of the part_000 graph taken while the camera is not ready
\* completes (the counter advances, the next callback is requested, the
\* status text is untouched): the source emits a null frame, both extractors
\* emit null metrics, the mapper emits tilt 0, lift 0.5, pinch 0, jaw 0,
\* presence 0, and the stage output draws its background with no base image
\* and no new trail point.
C24_StepWithoutCamera ==
  [][(Stepped /\ ~state.cameraReady) =>
       /\ links'.executed = state'.frameCounter
       /\ state'.rafId # NULL
       /\ ui'.statusPill = ui.statusPill
       /\ links'.frame = NULL
       /\ links'.faceMetrics = NullFaceMetrics
       /\ links'.handMetrics = NullHandMetrics
       /\ state'.lastFaceMetrics = NullFaceMetrics
       /\ state'.lastHandMetrics = NullHandMetrics
       /\ links'.controls = NeutralControls
       /\ ui'.stage = [baseImage |-> NULL, controls |-> NeutralControls]
       /\ Len(state'.trail) <= Len(state.trail)]_vars

\* a step after Stop that follows a live step with a subject in view: the
\* models are ready, the trail still holds the point of the live step
C24_Witness ==
  /\ ~state.cameraReady
  /\ state.modelsReady
  /\ ui.statusPill = "Camera stopped"
  /\ state.trail # <<>>
  /\ links.executed = state.frameCounter
  /\ links.frame = NULL
  /\ ui.stage.baseImage = NULL

====
